---- MODULE Spec2Model ----
(***************************************************************************)
(* A model of lib/pty_win.js of pty.js: the Windows PTY session            *)
(* (Terminal), its Agent, the readiness-gated deferred-call queue (defer)  *)
(* and the command-line encoder (argvToCommandLine).                       *)
(*                                                                         *)
(* A JavaScript string is modelled as a sequence of one-character strings. *)
(***************************************************************************)
EXTENDS Integers, Sequences, FiniteSets, TLC

\* ------------------------------------------------------------------------
\* Bounds of the model
\* ------------------------------------------------------------------------

\* Largest number of arguments of an encoded argument list.
MaxArgs == 2

\* Largest total number of characters of an encoded argument list.
MaxChars == 4

\* Largest number of inputs of a session: the calls of write, resize, kill
\* and destroy and the events the channel delivers before it closes.
MaxSteps == 3

\* The largest number of Agents created in one process.
MaxAgents == 11

\* ------------------------------------------------------------------------
\* Characters
\* ------------------------------------------------------------------------

BS == "\\"
DQ == "\""
SP == " "
TAB == "\t"

\* The alphabet the encoder inputs are drawn from: an ordinary character,
\* space, tab, double quote and backslash.
Alphabet == {"a", SP, TAB, DQ, BS}

\* '\\'.repeat(n), for any character c
Repeat(c, n) == [k \in 1..n |-> c]

\* arg.indexOf(c) != -1
Contains(arg, c) == \E k \in 1..Len(arg) : arg[k] = c

\* ------------------------------------------------------------------------
\* argvToCommandLine (pty_win.js 367-404)
\* ------------------------------------------------------------------------

\* NeedsQuote without the tab test.
NeedsQuoteNoTab(arg) == Contains(arg, SP) \/ arg = <<>>

\* The test that decides whether an argument is wrapped in double quotes.
NeedsQuote(arg) == Contains(arg, SP) \/ Contains(arg, TAB) \/ arg = <<>>

\* The inner loop over the characters of one argument, from index i on, with
\* the running backslash count bsCount and the command line built so far.
\* Returns the command line and the backslash count left at the end.
RECURSIVE EncodeChars(_, _, _, _)
EncodeChars(arg, i, bsCount, result) ==
  IF i > Len(arg) THEN [result |-> result, bsCount |-> bsCount]
  ELSE LET p == arg[i] IN
    IF p = BS THEN EncodeChars(arg, i + 1, bsCount + 1, result)
    ELSE IF p = DQ
      THEN EncodeChars(arg, i + 1, 0,
                       result \o Repeat(BS, bsCount * 2 + 1) \o <<DQ>>)
      ELSE EncodeChars(arg, i + 1, 0,
                       result \o Repeat(BS, bsCount) \o <<p>>)

\* EncodeArg without the doubling of the backslashes before the closing quote.
EncodeArgNoDoubling(arg, argIndex, result) ==
  LET sep   == IF argIndex > 1 THEN result \o <<SP>> ELSE result
      quote == NeedsQuote(arg)
      open  == IF quote THEN sep \o <<DQ>> ELSE sep
      body  == EncodeChars(arg, 1, 0, open)
  IN IF quote
       THEN body.result \o Repeat(BS, body.bsCount) \o <<DQ>>
       ELSE body.result \o Repeat(BS, body.bsCount)

\* One iteration of the outer loop: the separator, the opening quote, the
\* characters, the pending backslashes and the closing quote.
EncodeArg(arg, argIndex, result) ==
  LET sep   == IF argIndex > 1 THEN result \o <<SP>> ELSE result
      quote == NeedsQuote(arg)
      open  == IF quote THEN sep \o <<DQ>> ELSE sep
      body  == EncodeChars(arg, 1, 0, open)
  IN IF quote
       THEN body.result \o Repeat(BS, body.bsCount * 2) \o <<DQ>>
       ELSE body.result \o Repeat(BS, body.bsCount)

RECURSIVE EncodeArgs(_, _, _)
EncodeArgs(argv, argIndex, result) ==
  IF argIndex > Len(argv) THEN result
  ELSE EncodeArgs(argv, argIndex + 1, EncodeArg(argv[argIndex], argIndex, result))

argvToCommandLine(argv) == EncodeArgs(argv, 1, <<>>)

\* ------------------------------------------------------------------------
\* Inputs of the encoder
\* ------------------------------------------------------------------------

\* The sum of the first k lengths of lens.
RECURSIVE SumTo(_, _)
SumTo(lens, k) == IF k = 0 THEN 0 ELSE lens[k] + SumTo(lens, k - 1)

\* The argument list whose arguments have the lengths lens and whose
\* characters, one argument after the other, are chars.
ArgvOf(lens, chars) ==
  [k \in 1..Len(lens) |->
     SubSeq(chars, SumTo(lens, k - 1) + 1, SumTo(lens, k))]

\* The argument list of the documented example: ["a b", "c\"d", "e\\", ""].
ExampleArgv == << <<"a", SP, "b">>, <<"c", DQ, "d">>, <<"e", BS>>, <<>> >>

\* "a b" c\"d e\ ""
ExampleCommandLine ==
  <<DQ, "a", SP, "b", DQ, SP, "c", BS, DQ, "d", SP, "e", BS, SP, DQ, DQ>>

\* argv is an argument list of at most MaxArgs arguments and MaxChars
\* characters in all over Alphabet, or the documented example.
IsArgvInput(v) ==
  \/ \E n \in 0..MaxArgs : \E lens \in [1..n -> 0..MaxChars] :
       /\ SumTo(lens, n) <= MaxChars
       /\ \E chars \in [1..SumTo(lens, n) -> Alphabet] : v = ArgvOf(lens, chars)
  \/ v = ExampleArgv

\* ------------------------------------------------------------------------
\* JavaScript values
\* ------------------------------------------------------------------------

\* An absent argument or option.
Undefined == [t |-> "undefined", v |-> 0]

Num(n) == [t |-> "number", v |-> n]

DEFAULT_COLS == 80
DEFAULT_ROWS == 30

\* The truth value of x in `x || d`.
Falsy(x) == x.t = "undefined" \/ x.v = 0

\* x || d
Or(x, d) == IF Falsy(x) THEN d ELSE x

\* The values a cols or rows argument is drawn from: absent, zero, negative
\* and positive.
DimInputs == {Undefined, Num(0), Num(-1), Num(40)}

\* The cols and rows arguments of resize: each dimension takes each of the
\* values of DimInputs.
ResizeInputs ==
  {<<Undefined, Num(0)>>, <<Num(0), Undefined>>,
   <<Num(-1), Num(40)>>, <<Num(40), Num(-1)>>}

\* The cols and rows options of the constructor: absent or given.
OptInputs ==
  {[cols |-> Undefined, rows |-> Undefined], [cols |-> Num(40), rows |-> Num(24)]}

\* The values of the sig argument of kill.
SigInputs == {"undefined", "SIGTERM"}

\* The values written.
DataInputs == {"x"}

\* The channel events that are forwarded (pty_win.js 176).
ForwardedEvents == {"connect", "data", "end", "timeout", "drain"}

\* The forwarded events the channel delivers: all of them.
DeliveredEvents == ForwardedEvents

\* str.indexOf(pat) != -1, the ~str.indexOf(pat) test of line 222
HasSubstring(str, pat) ==
  \E k \in 0..(Len(str) - Len(pat)) :
    \A j \in 1..Len(pat) : str[k + j] = pat[j]

EIO == <<"E", "I", "O">>
Errno5 == <<"e", "r", "r", "n", "o", " ", "5">>
ReadEIO == <<"r", "e", "a", "d", " ", "E", "I", "O">>

\* The errors the channel reports: without a code, with the peer-exit codes
\* (in the spellings of the comment at 219-220) and with another code.
ErrInputs ==
  {[hasCode |-> FALSE, code |-> <<>>],
   [hasCode |-> TRUE, code |-> EIO],
   [hasCode |-> TRUE, code |-> Errno5],
   [hasCode |-> TRUE, code |-> ReadEIO],
   [hasCode |-> TRUE, code |-> <<"E", "P", "I", "P", "E">>]}

\* The process identifier pty.open returns.
Pid == "pid"

\* The session's file and arguments, as the argument list of line 66-67.
SessionArgv == << <<"a">>, <<"a", SP, BS>> >>

\* The timestamps Date.now() gives (43). The system clock can be set back, so
\* a later Agent can get a smaller timestamp than an earlier one.
Timestamps == {1, 2, 11}

FirstStamp == CHOOSE t \in Timestamps : \A u \in Timestamps : t <= u

\* The decimal digits of n, as JavaScript's conversion of a non-negative
\* integer to a string gives them (46).
RECURSIVE Decimal(_)
Decimal(n) == IF n < 10 THEN <<n>> ELSE Decimal(n \div 10) \o <<n % 10>>

\* The constant head of the pipe's name (46).
PipePrefix == <<"winpty-data-">>

\* PipeId that leaves the counter out.
PipeIdNoCounter(incr, timestamp) ==
  PipePrefix \o Decimal(timestamp)

\* this.dataPipe = '\\\\.\\pipe\\winpty-data-' + pipeIncr + '' + timestamp (46)
PipeId(incr, timestamp) ==
  PipePrefix \o Decimal(incr) \o Decimal(timestamp)

VARIABLES
  argv,         \* [file] followed by args
  cmdline,      \* the command line passed to pty.startProcess
  encoded,      \* whether cmdline has been computed
  opt,          \* the cols and rows options of the constructor
  isReady,      \* this.isReady
  deferreds,    \* this.deferreds
  dataPipe,     \* this.dataPipe: "null" or "socket"
  cols,         \* this.cols
  rows,         \* this.rows
  closed,       \* whether _close has run (readable and writable are false)
  total,        \* Terminal.total
  errListeners, \* this.listeners('error').length, counted up to 2
  channel,      \* the agent's connection: "none", "open" or "closed"
  delivered,    \* history: the events the channel has delivered, in order
  calls,        \* history: the calls made on the session, in order
  trace,        \* history: the calls of platform primitives and of
                \* dataPipe.write, and the events emitted by the session
  thrown,       \* what the last call or handler threw: "none" or the error
  built,        \* the constructor: "new", "listening" (the Agent's server
                \* listens, 76), "built" (it returned) or "failed" (it threw)
  server,       \* the Agent's ptyDataPipe server: "none" or "listening"
  agentPid,     \* the Agent's pid: "undefined" until pty.open has returned
  channel2,     \* a further connection to the server: "none", "open",
                \* "closed", or "orphan" (no handler is registered on it)
  pipeIncr,     \* the counter of the pipes created so far (22)
  stamps,       \* history: the timestamps of the Agents created, in order
  ids           \* history: the data-pipe identifiers of the Agents created

encVars == <<argv, cmdline, encoded>>

\* The state of the Agent's construction and of its server.
agentVars == <<built, server, agentPid, channel2>>

\* The identifiers of the data pipes.
idVars == <<pipeIncr, stamps, ids>>

vars == <<argv, cmdline, encoded, opt, isReady, deferreds, dataPipe, cols, rows,
          closed, total, errListeners, channel, delivered, calls, trace, thrown,
          built, server, agentPid, channel2, pipeIncr, stamps, ids>>

\* ------------------------------------------------------------------------
\* The part of the session the bodies of write, resize, kill and destroy act
\* on, as a record: st.dataPipe, st.cols, st.rows, st.closed, st.trace and
\* st.thrown (the error thrown so far, "none" if none).
\* ------------------------------------------------------------------------

Session ==
  [dataPipe |-> dataPipe, cols |-> cols, rows |-> rows, closed |-> closed,
   trace |-> trace, thrown |-> "none"]

\* BaseTerminal.prototype._close: releases the channel; idempotent.
_close(st) == [st EXCEPT !.closed = TRUE]

\* The function deferred by write (283-285).
WriteBody(op, st) ==
  IF st.dataPipe = "null"
    THEN [st EXCEPT !.thrown = "TypeError"]
    ELSE [st EXCEPT !.trace =
            Append(@, [e |-> "dataPipe.write", data |-> op.data, id |-> op.id])]

\* ResizeBody that forwards the size without recording it in the session.
ResizeBodyNoRecord(op, st) ==
  LET c == Or(op.cols, Num(DEFAULT_COLS))
      r == Or(op.rows, Num(DEFAULT_ROWS))
  IN [st EXCEPT !.trace = Append(@, [e |-> "pty.resize", pid |-> Pid,
                                     cols |-> c, rows |-> r, id |-> op.id])]

\* The function deferred by resize (293-302).
ResizeBody(op, st) ==
  LET c == Or(op.cols, Num(DEFAULT_COLS))
      r == Or(op.rows, Num(DEFAULT_ROWS))
  IN [st EXCEPT !.cols = c, !.rows = r,
                !.trace = Append(@, [e |-> "pty.resize", pid |-> Pid,
                                     cols |-> c, rows |-> r, id |-> op.id])]

\* KillBody that also emits 'exit'.
KillBodyEmitsExit(op, st) ==
  IF op.sig # "undefined"
    THEN [st EXCEPT !.thrown = "Signals not supported on windows.",
                    !.trace = Append(@, [e |-> "throw", id |-> op.id])]
    ELSE LET st1 == _close(st)
         IN [st1 EXCEPT !.trace =
               @ \o << [e |-> "emit", ev |-> "exit", payload |-> 0],
                       [e |-> "pty.kill", pid |-> Pid, id |-> op.id] >>]

\* KillBody that throws on a session that is closed already.
KillBodyThrowsWhenClosed(op, st) ==
  IF op.sig # "undefined" \/ st.closed
    THEN [st EXCEPT !.thrown = "Signals not supported on windows.",
                    !.trace = Append(@, [e |-> "throw", id |-> op.id])]
    ELSE LET st1 == _close(st)
         IN [st1 EXCEPT !.trace =
               Append(@, [e |-> "pty.kill", pid |-> Pid, id |-> op.id])]

\* The function deferred by kill (312-318).
KillBody(op, st) ==
  IF op.sig # "undefined"
    THEN [st EXCEPT !.thrown = "Signals not supported on windows.",
                    !.trace = Append(@, [e |-> "throw", id |-> op.id])]
    ELSE LET st1 == _close(st)
         IN [st1 EXCEPT !.trace =
               Append(@, [e |-> "pty.kill", pid |-> Pid, id |-> op.id])]

\* The function deferred by destroy (306-308): this.kill(), which runs inline
\* since the function runs on a ready session only.
DestroyBody(op, st) ==
  KillBody([op |-> "kill", sig |-> "undefined", id |-> op.id], st)

\* deferredFn.apply(terminal, null)
Run(op, st) ==
  CASE op.op = "write"   -> WriteBody(op, st)
    [] op.op = "resize"  -> ResizeBody(op, st)
    [] op.op = "kill"    -> KillBody(op, st)
    [] op.op = "destroy" -> DestroyBody(op, st)

\* RunDeferreds from the last function to the first.
RECURSIVE RunDeferredsReversed(_, _)
RunDeferredsReversed(fns, st) ==
  IF fns = <<>> \/ st.thrown # "none" THEN st
  ELSE RunDeferredsReversed(SubSeq(fns, 1, Len(fns) - 1), Run(fns[Len(fns)], st))

\* self.deferreds.forEach(fn => fn.run()) (188-195): in order, up to the
\* first function that throws.
RECURSIVE RunDeferreds(_, _)
RunDeferreds(fns, st) ==
  IF fns = <<>> \/ st.thrown # "none" THEN st
  ELSE RunDeferreds(Tail(fns), Run(Head(fns), st))

\* defer that runs the function at once, ready or not.
deferRunsAtOnce(ready, queue, op, st) ==
  [deferreds |-> queue, st |-> Run(op, st)]

\* defer (329-349): runs the function when the terminal is ready, queues it
\* otherwise. Gives the new queue and the new session.
defer(ready, queue, op, st) ==
  IF ready THEN [deferreds |-> queue, st |-> Run(op, st)]
           ELSE [deferreds |-> Append(queue, op), st |-> st]

\* Forward that takes the first event of any kind for the first data event.
ForwardReadyOnAnyEvent(ev, payload, ready, queue, st) ==
  LET emit(s) == [s EXCEPT !.trace =
                    Append(@, [e |-> "emit", ev |-> ev, payload |-> payload])]
  IN IF ~ready
       THEN LET st1 == RunDeferreds(queue, st)
            IN IF st1.thrown # "none"
                 THEN [isReady |-> TRUE, deferreds |-> queue, st |-> st1]
                 ELSE [isReady |-> TRUE, deferreds |-> <<>>, st |-> emit(st1)]
       ELSE [isReady |-> ready, deferreds |-> queue, st |-> emit(st)]

\* The handler of a forwarded channel event (177-205). Gives the new
\* readiness flag, queue and session.
Forward(ev, payload, ready, queue, st) ==
  LET emit(s) == [s EXCEPT !.trace =
                    Append(@, [e |-> "emit", ev |-> ev, payload |-> payload])]
  IN IF ~ready /\ ev = "data"
       THEN LET st1 == RunDeferreds(queue, st)
            IN IF st1.thrown # "none"
                 THEN [isReady |-> TRUE, deferreds |-> queue, st |-> st1]
                 ELSE [isReady |-> TRUE, deferreds |-> <<>>, st |-> emit(st1)]
       ELSE [isReady |-> ready, deferreds |-> queue, st |-> emit(st)]

\* The number of 'error' listeners from which an error is not thrown (226).
\* The model counts the listeners up to this number: errListeners = 2 stands
\* for two or more.
ErrorListenerThreshold == 2

\* The test of lines 221-223: the error is a peer exit.
IsPeerExit(err) ==
  /\ err.hasCode
  /\ err.code # <<>>
  /\ (HasSubstring(err.code, Errno5) \/ HasSubstring(err.code, EIO))

\* OnError that throws with no listener only.
OnErrorOneListener(err, listeners, st) ==
  LET st1 == _close(st)
  IN IF IsPeerExit(err) THEN st1
     ELSE IF listeners < 1 THEN [st1 EXCEPT !.thrown = "err"]
     ELSE st1

\* The handler of the channel's 'error' event (212-230).
OnError(err, listeners, st) ==
  LET st1 == _close(st)
  IN IF IsPeerExit(err) THEN st1
     ELSE IF listeners < ErrorListenerThreshold THEN [st1 EXCEPT !.thrown = "err"]
     ELSE st1

\* The session after the step: the fields of st.
Apply(st) ==
  /\ dataPipe' = st.dataPipe
  /\ cols' = st.cols
  /\ rows' = st.rows
  /\ closed' = st.closed
  /\ trace' = st.trace
  /\ thrown' = st.thrown

\* ------------------------------------------------------------------------
\* The state after new Terminal(file, args, opt) (113-250), with the Agent
\* created (36-90).
\* ------------------------------------------------------------------------

Constructed ==
  /\ opt \in OptInputs
  /\ isReady = FALSE
  /\ deferreds = <<>>
  /\ dataPipe = "null"
  /\ cols = Or(opt.cols, Num(DEFAULT_COLS))
  /\ rows = Or(opt.rows, Num(DEFAULT_ROWS))
  /\ closed = FALSE
  /\ total = 1
  /\ errListeners = 0
  /\ channel = "none"
  /\ delivered = <<>>
  /\ calls = <<>>
  /\ trace = << [e |-> "pty.open", cols |-> Or(opt.cols, Num(DEFAULT_COLS)),
                                   rows |-> Or(opt.rows, Num(DEFAULT_ROWS))] >>
  /\ thrown = "none"
  /\ built = "built"
  /\ server = "listening"
  /\ agentPid = Pid
  /\ channel2 = "none"
  /\ pipeIncr = 1
  /\ stamps = <<FirstStamp>>
  /\ ids = <<PipeId(1, FirstStamp)>>

Init ==
  /\ argv = SessionArgv
  /\ cmdline = <<>>
  /\ encoded = FALSE
  /\ Constructed

sessionVars == <<opt, isReady, deferreds, dataPipe, cols, rows, closed, total,
                 errListeners, channel, delivered, calls, trace, thrown,
                 agentVars, idVars>>

\* Connection that does not set this.dataPipe.
ConnectionNoDataPipe ==
  /\ channel = "none"
  /\ server = "listening"
  /\ built \in {"built", "failed"}
  /\ cmdline' = argvToCommandLine(argv)
  /\ encoded' = TRUE
  /\ trace' = Append(trace, [e |-> "pty.startProcess", pid |-> agentPid,
                             cmdline |-> argvToCommandLine(argv)])
  /\ thrown' = "none"
  /\ IF built = "built"
       THEN channel' = "open" /\ dataPipe' = dataPipe
       ELSE channel' = "orphan" /\ dataPipe' = dataPipe
  /\ UNCHANGED <<argv, opt, isReady, deferreds, cols, rows, closed, total,
                 errListeners, delivered, calls, built, server, agentPid,
                 channel2, idVars>>

\* The agent connects to the data pipe: the server's callback (53-76) and the
\* 'ready_datapipe' handler (170-239). The callback runs once the constructor
\* has returned or thrown, as a callback of the event loop does. When the
\* constructor threw, no 'ready_datapipe' listener is registered (170 was not
\* reached) and the socket stays paused with no handler.
Connection ==
  /\ channel = "none"
  /\ server = "listening"
  /\ built \in {"built", "failed"}
  /\ cmdline' = argvToCommandLine(argv)
  /\ encoded' = TRUE
  /\ trace' = Append(trace, [e |-> "pty.startProcess", pid |-> agentPid,
                             cmdline |-> argvToCommandLine(argv)])
  /\ thrown' = "none"
  /\ IF built = "built"
       THEN channel' = "open" /\ dataPipe' = "socket"
       ELSE channel' = "orphan" /\ dataPipe' = dataPipe
  /\ UNCHANGED <<argv, opt, isReady, deferreds, cols, rows, closed, total,
                 errListeners, delivered, calls, built, server, agentPid,
                 channel2, idVars>>

\* A call of write, resize, kill or destroy: op is the call with its
\* arguments.
Call(op) ==
  /\ built = "built"
  /\ Len(calls) + Len(delivered) < MaxSteps
  /\ LET o == [op EXCEPT !.id = Len(calls) + 1]
         d == defer(isReady, deferreds, o, Session)
     IN /\ calls' = Append(calls, [call |-> o, queued |-> ~isReady,
                                   at |-> Len(delivered)])
        /\ deferreds' = d.deferreds
        /\ Apply(d.st)
  /\ UNCHANGED <<encVars, opt, isReady, total, errListeners, channel, delivered,
                 agentVars, idVars>>

write ==
  \E data \in DataInputs : Call([op |-> "write", data |-> data, id |-> 0])

resize ==
  \E a \in ResizeInputs :
    Call([op |-> "resize", cols |-> a[1], rows |-> a[2], id |-> 0])

kill ==
  \E sig \in SigInputs : Call([op |-> "kill", sig |-> sig, id |-> 0])

destroy == Call([op |-> "destroy", id |-> 0])

\* The session's own on('error', listener).
AddErrorListener ==
  /\ built = "built"
  /\ errListeners < ErrorListenerThreshold
  /\ errListeners' = errListeners + 1
  /\ UNCHANGED <<encVars, opt, isReady, deferreds, dataPipe, cols, rows, closed,
                 total, channel, delivered, calls, trace, thrown, agentVars,
                 idVars>>

\* The channel delivers one of the forwarded events.
ChannelEvent ==
  /\ channel = "open"
  /\ Len(calls) + Len(delivered) < MaxSteps
  /\ \E ev \in DeliveredEvents \cap ForwardedEvents :
       LET n == Len(delivered) + 1
           f == Forward(ev, n, isReady, deferreds, Session)
       IN /\ isReady' = f.isReady
          /\ deferreds' = f.deferreds
          /\ Apply(f.st)
          /\ delivered' = Append(delivered, [ev |-> ev, payload |-> n])
  /\ UNCHANGED <<encVars, opt, total, errListeners, channel, calls, agentVars,
                 idVars>>

\* The channel delivers an 'error' event.
ChannelError ==
  /\ channel = "open"
  /\ Len(calls) + Len(delivered) < MaxSteps
  /\ \E err \in ErrInputs :
       /\ Apply(OnError(err, errListeners, Session))
       /\ delivered' = Append(delivered, [ev |-> "error", payload |-> err])
  /\ UNCHANGED <<encVars, opt, isReady, deferreds, total, errListeners, channel,
                 calls, agentVars, idVars>>

\* The channel delivers its 'close' event (233-237); it delivers nothing
\* after it.
ChannelClose ==
  /\ channel = "open"
  /\ channel' = "closed"
  /\ total' = total - 1
  /\ Apply(_close([Session EXCEPT !.trace =
                     Append(@, [e |-> "emit", ev |-> "exit", payload |-> 0])]))
  /\ UNCHANGED <<encVars, opt, isReady, deferreds, errListeners, delivered, calls,
                 agentVars, idVars>>

Next ==
  \/ Connection
  \/ write
  \/ resize
  \/ kill
  \/ destroy
  \/ AddErrorListener
  \/ ChannelEvent
  \/ ChannelError
  \/ ChannelClose

Spec == Init /\ [][Next]_vars

\* ------------------------------------------------------------------------
\* The Agent from its construction on: the constructor step by step, with
\* pty.open returning or throwing, and a further connection to the Agent's
\* server, which keeps listening.
\* ------------------------------------------------------------------------

\* The state when new Terminal(file, args, opt) is entered.
InitAgent ==
  /\ argv = SessionArgv
  /\ cmdline = <<>>
  /\ encoded = FALSE
  /\ opt \in OptInputs
  /\ isReady = FALSE
  /\ deferreds = <<>>
  /\ dataPipe = "null"
  /\ cols = Undefined
  /\ rows = Undefined
  /\ closed = FALSE
  /\ total = 0
  /\ errListeners = 0
  /\ channel = "none"
  /\ delivered = <<>>
  /\ calls = <<>>
  /\ trace = <<>>
  /\ thrown = "none"
  /\ built = "new"
  /\ server = "none"
  /\ agentPid = "undefined"
  /\ channel2 = "none"
  /\ pipeIncr = 0
  /\ stamps = <<>>
  /\ ids = <<>>

\* The constructor up to the Agent's listen (113-154, 36-76): the pipe gets
\* its identifier and the server listens on it.
NewAgent ==
  /\ built = "new"
  /\ built' = "listening"
  /\ \E timestamp \in Timestamps :
       /\ pipeIncr' = pipeIncr + 1
       /\ stamps' = Append(stamps, timestamp)
       /\ ids' = Append(ids, PipeId(pipeIncr + 1, timestamp))
  /\ server' = "listening"
  /\ UNCHANGED <<encVars, opt, isReady, deferreds, dataPipe, cols, rows, closed,
                 total, errListeners, channel, delivered, calls, trace, thrown,
                 agentPid, channel2>>

\* pty.open returns (79) and the constructor runs to its end (82-89, 158-250).
Open ==
  /\ built = "listening"
  /\ built' = "built"
  /\ trace' = Append(trace, [e |-> "pty.open",
                             cols |-> Or(opt.cols, Num(DEFAULT_COLS)),
                             rows |-> Or(opt.rows, Num(DEFAULT_ROWS))])
  /\ agentPid' = Pid
  /\ cols' = Or(opt.cols, Num(DEFAULT_COLS))
  /\ rows' = Or(opt.rows, Num(DEFAULT_ROWS))
  /\ total' = total + 1
  /\ UNCHANGED <<encVars, opt, isReady, deferreds, dataPipe, closed, errListeners,
                 channel, delivered, calls, thrown, server, channel2, idVars>>

\* pty.open throws (79): the error leaves the constructors of Agent and
\* Terminal, none of the statements after 79 runs, and nothing closes the
\* server.
OpenFails ==
  /\ built = "listening"
  /\ built' = "failed"
  /\ trace' = Append(trace, [e |-> "pty.open",
                             cols |-> Or(opt.cols, Num(DEFAULT_COLS)),
                             rows |-> Or(opt.rows, Num(DEFAULT_ROWS))])
  /\ thrown' = "pty.open"
  /\ UNCHANGED <<encVars, opt, isReady, deferreds, dataPipe, cols, rows, closed,
                 total, errListeners, channel, delivered, calls, server,
                 agentPid, channel2, idVars>>

\* A further connection to the server: the same callback (53-76) and the
\* same 'ready_datapipe' handler (170-239), which sets this.dataPipe to the
\* new socket and registers the handlers on it.
Reconnection ==
  /\ channel # "none"
  /\ channel2 = "none"
  /\ server = "listening"
  /\ built \in {"built", "failed"}
  /\ cmdline' = argvToCommandLine(argv)
  /\ encoded' = TRUE
  /\ trace' = Append(trace, [e |-> "pty.startProcess", pid |-> agentPid,
                             cmdline |-> argvToCommandLine(argv)])
  /\ thrown' = "none"
  /\ IF built = "built"
       THEN channel2' = "open" /\ dataPipe' = "socket2"
       ELSE channel2' = "orphan" /\ dataPipe' = dataPipe
  /\ UNCHANGED <<argv, opt, isReady, deferreds, cols, rows, closed, total,
                 errListeners, delivered, calls, built, server, agentPid,
                 channel, idVars>>

\* The further connection delivers one of the forwarded events.
ChannelEvent2 ==
  /\ channel2 = "open"
  /\ Len(calls) + Len(delivered) < MaxSteps
  /\ \E ev \in DeliveredEvents \cap ForwardedEvents :
       LET n == Len(delivered) + 1
           f == Forward(ev, n, isReady, deferreds, Session)
       IN /\ isReady' = f.isReady
          /\ deferreds' = f.deferreds
          /\ Apply(f.st)
          /\ delivered' = Append(delivered, [ev |-> ev, payload |-> n])
  /\ UNCHANGED <<encVars, opt, total, errListeners, channel, calls, agentVars,
                 idVars>>

\* The further connection delivers an 'error' event.
ChannelError2 ==
  /\ channel2 = "open"
  /\ Len(calls) + Len(delivered) < MaxSteps
  /\ \E err \in ErrInputs :
       /\ Apply(OnError(err, errListeners, Session))
       /\ delivered' = Append(delivered, [ev |-> "error", payload |-> err])
  /\ UNCHANGED <<encVars, opt, isReady, deferreds, total, errListeners, channel,
                 calls, agentVars, idVars>>

\* The further connection delivers its 'close' event (233-237).
ChannelClose2 ==
  /\ channel2 = "open"
  /\ channel2' = "closed"
  /\ total' = total - 1
  /\ Apply(_close([Session EXCEPT !.trace =
                     Append(@, [e |-> "emit", ev |-> "exit", payload |-> 0])]))
  /\ UNCHANGED <<encVars, opt, isReady, deferreds, errListeners, delivered, calls,
                 channel, built, server, agentPid, idVars>>

NextAgent ==
  \/ NewAgent
  \/ Open
  \/ OpenFails
  \/ Connection
  \/ Reconnection
  \/ write
  \/ resize
  \/ kill
  \/ destroy
  \/ AddErrorListener
  \/ ChannelEvent
  \/ ChannelError
  \/ ChannelClose
  \/ ChannelEvent2
  \/ ChannelError2
  \/ ChannelClose2

SpecAgent == InitAgent /\ [][NextAgent]_vars

\* ------------------------------------------------------------------------
\* The identifiers of the data pipes on their own: Agent after Agent is
\* created in one process.
\* ------------------------------------------------------------------------

\* The identifier part of the Agent's constructor (39-46).
CreateAgent ==
  /\ pipeIncr < MaxAgents
  /\ \E timestamp \in Timestamps :
       /\ pipeIncr' = pipeIncr + 1
       /\ stamps' = Append(stamps, timestamp)
       /\ ids' = Append(ids, PipeId(pipeIncr + 1, timestamp))
  /\ UNCHANGED <<encVars, opt, isReady, deferreds, dataPipe, cols, rows, closed,
                 total, errListeners, channel, delivered, calls, trace, thrown,
                 agentVars>>

InitIds ==
  /\ InitAgent
  /\ opt = [cols |-> Undefined, rows |-> Undefined]

NextIds == CreateAgent

SpecIds == InitIds /\ [][NextIds]_vars

\* ------------------------------------------------------------------------
\* The encoder on its own: every argument list within the bounds.
\* ------------------------------------------------------------------------

InitEnc ==
  /\ IsArgvInput(argv)
  /\ cmdline = <<>>
  /\ encoded = FALSE
  /\ Constructed
  /\ opt = [cols |-> Undefined, rows |-> Undefined]

\* cmdline = argvToCommandLine(cmdline) (pty_win.js 66-68)
Encode ==
  /\ ~encoded
  /\ cmdline' = argvToCommandLine(argv)
  /\ encoded' = TRUE
  /\ UNCHANGED <<argv, sessionVars>>

NextEnc == Encode

SpecEnc == InitEnc /\ [][NextEnc]_vars

\* ------------------------------------------------------------------------
\* The platform's command-line splitting rule (the backslash and quote rules
\* of CommandLineToArgvW, which the comment at pty_win.js 364-366 names):
\*   - arguments are delimited by spaces and tabs outside quotes;
\*   - 2n backslashes followed by a quote give n backslashes and the quote
\*     opens or closes a quoted part;
\*   - 2n+1 backslashes followed by a quote give n backslashes and a literal
\*     quote;
\*   - backslashes not followed by a quote are literal.
\* ------------------------------------------------------------------------

\* The number of consecutive backslashes of s from index i on.
RECURSIVE RunLen(_, _)
RunLen(s, i) ==
  IF i <= Len(s) /\ s[i] = BS THEN 1 + RunLen(s, i + 1) ELSE 0

RECURSIVE SplitFrom(_, _, _, _, _, _)
SplitFrom(s, i, inQuotes, inArg, cur, out) ==
  IF i > Len(s) THEN (IF inArg THEN Append(out, cur) ELSE out)
  ELSE LET c == s[i] IN
    IF c = BS THEN
      LET n == RunLen(s, i)
          j == i + n
      IN IF j <= Len(s) /\ s[j] = DQ
           THEN IF n % 2 = 0
                  THEN SplitFrom(s, j + 1, ~inQuotes, TRUE,
                                 cur \o Repeat(BS, n \div 2), out)
                  ELSE SplitFrom(s, j + 1, inQuotes, TRUE,
                                 cur \o Repeat(BS, n \div 2) \o <<DQ>>, out)
           ELSE SplitFrom(s, j, inQuotes, TRUE, cur \o Repeat(BS, n), out)
    ELSE IF c = DQ THEN SplitFrom(s, i + 1, ~inQuotes, TRUE, cur, out)
    ELSE IF c \in {SP, TAB} /\ ~inQuotes
      THEN IF inArg THEN SplitFrom(s, i + 1, FALSE, FALSE, <<>>, Append(out, cur))
                    ELSE SplitFrom(s, i + 1, FALSE, FALSE, <<>>, out)
    ELSE SplitFrom(s, i + 1, inQuotes, TRUE, Append(cur, c), out)

CommandLineToArgv(s) == SplitFrom(s, 1, FALSE, FALSE, <<>>, <<>>)

\* C7: splitting the encoded command line with the platform's rule gives back
\* the argument list, element for element.
EncoderRoundTrip ==
  encoded => CommandLineToArgv(cmdline) = argv

\* An argument with a backslash run before a quote inside a quoted argument,
\* followed by an empty argument.
EncoderRoundTripWitness ==
  /\ encoded
  /\ argv = << <<SP, BS, DQ>>, <<>> >>
  /\ cmdline = <<DQ, SP, BS, BS, BS, DQ, DQ, SP, DQ, DQ>>
  /\ CommandLineToArgv(cmdline) = argv

\* ------------------------------------------------------------------------
\* The encoding as the documentation describes it, by backslash runs.
\* ------------------------------------------------------------------------

\* The encoding of the characters s of an argument: the leading run of N
\* backslashes becomes 2N+1 before a quote, 2N at the end of a quoted
\* argument and N otherwise; the character after the run is kept.
RECURSIVE DescribedBody(_, _)
DescribedBody(s, quoted) ==
  LET n    == RunLen(s, 1)
      rest == SubSeq(s, n + 1, Len(s))
  IN IF rest = <<>> THEN Repeat(BS, IF quoted THEN 2 * n ELSE n)
     ELSE IF Head(rest) = DQ
       THEN Repeat(BS, 2 * n + 1) \o <<DQ>> \o DescribedBody(Tail(rest), quoted)
       ELSE Repeat(BS, n) \o <<Head(rest)>> \o DescribedBody(Tail(rest), quoted)

DescribedArg(arg) ==
  LET quoted == arg = <<>> \/ \E k \in 1..Len(arg) : arg[k] \in {SP, TAB}
  IN IF quoted THEN <<DQ>> \o DescribedBody(arg, TRUE) \o <<DQ>>
               ELSE DescribedBody(arg, FALSE)

RECURSIVE DescribedLine(_)
DescribedLine(args) ==
  IF args = <<>> THEN <<>>
  ELSE IF Len(args) = 1 THEN DescribedArg(args[1])
  ELSE DescribedArg(Head(args)) \o <<SP>> \o DescribedLine(Tail(args))

\* C8: the command line is the arguments joined by single spaces, each
\* quoted iff empty or holding a space or tab, with backslash runs encoded
\* as 2N+1 before a quote, 2N at the end of a quoted argument and N
\* elsewhere; the documented example encodes to the documented line.
EncoderAlgorithm ==
  encoded => /\ cmdline = DescribedLine(argv)
             /\ (argv = ExampleArgv => cmdline = ExampleCommandLine)

EncoderAlgorithmWitness ==
  /\ encoded
  /\ argv = ExampleArgv
  /\ cmdline = ExampleCommandLine

\* ------------------------------------------------------------------------
\* Properties of the session
\* ------------------------------------------------------------------------

\* The indices of the entries of the history tr that satisfy P.
Where(tr, P(_)) == {k \in 1..Len(tr) : P(tr[k])}

IsExit(x) == x.e = "emit" /\ x.ev = "exit"
IsPtyKill(x) == x.e = "pty.kill"
IsEffect(x) == x.e \in {"dataPipe.write", "pty.resize"}

ExitCount(tr) == Cardinality(Where(tr, IsExit))

\* The index in delivered of the channel's first data event, 0 if none yet.
FirstData ==
  LET D == {n \in 1..Len(delivered) : delivered[n].ev = "data"}
  IN IF D = {} THEN 0 ELSE CHOOSE n \in D : \A m \in D : n <= m

\* The write and resize calls made before the channel's first data event.
EarlyWriteResize ==
  {i \in 1..Len(calls) :
     /\ calls[i].call.op \in {"write", "resize"}
     /\ (FirstData = 0 \/ calls[i].at < FirstData)}

\* The side effect of call i is entry k of the trace.
EffectOf(i, k) ==
  LET c == calls[i].call
      x == trace[k]
  IN /\ IsEffect(x)
     /\ x.id = i
     /\ (c.op = "write" => x.e = "dataPipe.write" /\ x.data = c.data)
     /\ (c.op = "resize" => x.e = "pty.resize" /\ x.pid = Pid)

\* C1: the side effects of the write and resize calls made before the first
\* data event happen in the order of the calls, and all of them before that
\* data event is emitted by the session.
ReadinessOrdering ==
  /\ \A i \in EarlyWriteResize, j \in EarlyWriteResize :
       \A k \in 1..Len(trace), l \in 1..Len(trace) :
         i < j /\ EffectOf(i, k) /\ EffectOf(j, l) => k < l
  /\ \A p \in 1..Len(trace) :
       (trace[p].e = "emit" /\ trace[p].ev = "data" /\ trace[p].payload = FirstData)
         => \A i \in EarlyWriteResize : \E k \in 1..(p - 1) : EffectOf(i, k)

\* A write and then a resize were made before the first data event, and the
\* session has emitted that event.
ReadinessOrderingWitness ==
  /\ Len(calls) = 2
  /\ calls[1].call.op = "write" /\ calls[2].call.op = "resize"
  /\ EarlyWriteResize = {1, 2}
  /\ \E p \in 1..Len(trace) :
       /\ trace[p].e = "emit" /\ trace[p].ev = "data" /\ trace[p].payload = FirstData
       /\ EffectOf(1, p - 2) /\ EffectOf(2, p - 1)

IsKillCall(sig) ==
  /\ Len(calls') = Len(calls) + 1
  /\ calls'[Len(calls')].call.op = "kill"
  /\ calls'[Len(calls')].call.sig = sig

\* C3: on a ready session on which kill() has run or whose channel has
\* closed, kill() does not throw, leaves Terminal.total as it is and emits
\* no 'exit'.
IdempotentTeardown ==
  [][(/\ IsKillCall("undefined")
      /\ isReady
      /\ (channel = "closed" \/ Where(trace, IsPtyKill) # {}))
     => /\ thrown' = "none"
        /\ total' = total
        /\ ExitCount(trace') = ExitCount(trace)]_vars

\* kill() has run, the channel has closed, and kill() has run again.
IdempotentTeardownWitness ==
  /\ isReady
  /\ channel = "closed"
  /\ Len(trace) >= 3
  /\ IsPtyKill(trace[Len(trace) - 2])
  /\ IsExit(trace[Len(trace) - 1])
  /\ IsPtyKill(trace[Len(trace)])
  /\ thrown = "none"
  /\ total = 0

\* C4: in every session state, kill(sig) with a signal throws inside the
\* call, leaves isReady, the queue, the size, Terminal.total and the channel
\* as they are and makes no call of pty.kill.
SignalRejection ==
  [][IsKillCall("SIGTERM")
     => /\ thrown' # "none"
        /\ UNCHANGED <<isReady, deferreds, cols, rows, total, channel, dataPipe,
                       closed>>
        /\ Where(trace', IsPtyKill) = Where(trace, IsPtyKill)]_vars

\* The codes of a peer exit, in the spellings of the comment at 217-220.
PeerExitCodes == {EIO, Errno5, ReadEIO}

\* C5: an 'error' event of the channel with a peer-exit code is not thrown,
\* whatever the number of 'error' listeners; any other error, one without a
\* code included, is thrown iff fewer than two listeners are registered.
SuppressedOrEscalated ==
  [][(/\ Len(delivered') = Len(delivered) + 1
      /\ delivered'[Len(delivered')].ev = "error")
     => LET err == delivered'[Len(delivered')].payload
        IN IF err.hasCode /\ err.code \in PeerExitCodes
             THEN thrown' = "none"
             ELSE (thrown' # "none") <=> (errListeners < 2)]_vars

\* An error with another code was thrown with one listener registered.
SuppressedOrEscalatedWitness ==
  /\ delivered # <<>>
  /\ delivered[Len(delivered)].ev = "error"
  /\ delivered[Len(delivered)].payload.hasCode
  /\ delivered[Len(delivered)].payload.code \notin PeerExitCodes
  /\ errListeners = 1
  /\ thrown = "err"

\* The size in effect when the size x is asked for: the default d for the
\* values of Defaulted, x otherwise.
Effective(x, d, Defaulted(_)) == IF Defaulted(x) THEN d ELSE x.v

\* The size is recorded and passed to the platform as Defaulted says:
\* by the constructor to pty.open, by each resize to pty.resize, and the
\* recorded size is that of the last of them.
SizesFollow(Defaulted(_)) ==
  LET R == Where(trace, LAMBDA x : x.e \in {"pty.open", "pty.resize"})
      last == CHOOSE k \in R : \A m \in R : m <= k
  IN /\ trace[1].e = "pty.open"
     /\ trace[1].cols.v = Effective(opt.cols, DEFAULT_COLS, Defaulted)
     /\ trace[1].rows.v = Effective(opt.rows, DEFAULT_ROWS, Defaulted)
     /\ \A k \in R \ {1} :
          /\ trace[k].cols.v =
               Effective(calls[trace[k].id].call.cols, DEFAULT_COLS, Defaulted)
          /\ trace[k].rows.v =
               Effective(calls[trace[k].id].call.rows, DEFAULT_ROWS, Defaulted)
     /\ cols = trace[last].cols
     /\ rows = trace[last].rows

AbsentOrNonPositive(x) == x.t = "undefined" \/ x.v <= 0
AbsentOrZero(x) == x.t = "undefined" \/ x.v = 0

\* C6 as stated: an absent, zero or negative dimension gives 80 columns or
\* 30 rows, recorded in the session and passed to pty.open and pty.resize.
DefaultSizingNonPositive == SizesFollow(AbsentOrNonPositive)

\* C6 as amended: an absent or zero dimension gives 80 columns or 30 rows,
\* recorded in the session and passed to pty.open and pty.resize; any other
\* dimension, a negative one included, is recorded and passed as given.
DefaultSizing == SizesFollow(AbsentOrZero)

\* A session constructed without cols and rows on which resize(undefined, 0)
\* has run.
DefaultSizingWitness ==
  /\ opt = [cols |-> Undefined, rows |-> Undefined]
  /\ trace[1] = [e |-> "pty.open", cols |-> Num(80), rows |-> Num(30)]
  /\ Len(calls) = 2
  /\ calls[1].call.op = "resize" /\ calls[1].call.cols = Num(40)
  /\ calls[2].call.op = "resize"
  /\ calls[2].call.cols = Undefined /\ calls[2].call.rows = Num(0)
  /\ trace[Len(trace)] = [e |-> "pty.resize", pid |-> Pid, cols |-> Num(80),
                          rows |-> Num(30), id |-> 2]
  /\ cols = Num(80) /\ rows = Num(30)

\* C9: the queue is non-empty only while isReady is false.
DeferredQueueInvariant == isReady => deferreds = <<>>

\* The calls that were queued.
Queued == {i \in 1..Len(calls) : calls[i].queued}

\* The number of times the function of call i has run.
Runs(i) == Cardinality(Where(trace, LAMBDA x : x.e # "emit" /\ x.e # "pty.open"
                                       /\ x.e # "pty.startProcess" /\ x.id = i))

\* C10: every queued call has run exactly once when the session is ready,
\* and not at all before.
ExactlyOnceDrain ==
  \A i \in Queued : Runs(i) = (IF isReady THEN 1 ELSE 0)

\* ------------------------------------------------------------------------
\* Readiness and teardown.
\* ------------------------------------------------------------------------

\* The step delivers the channel's first data event.
DeliversFirstData ==
  /\ Len(delivered') = Len(delivered) + 1
  /\ delivered'[Len(delivered')].ev = "data"
  /\ FirstData' = Len(delivered')

\* C11: isReady is false after construction, never goes from true to false,
\* and goes from false to true in the step that delivers the channel's first
\* data event and in no other step.
ReadinessMonotonic ==
  /\ ~isReady
  /\ [][/\ isReady => isReady'
        /\ (isReady' # isReady) <=> DeliversFirstData]_vars

\* A session that got ready at its second event, the first being no data
\* event, and is still ready after kill() and the channel's close.
ReadinessMonotonicWitness ==
  /\ isReady
  /\ FirstData = 2
  /\ delivered[1].ev \in {"connect", "end", "timeout", "drain"}
  /\ Where(trace, IsPtyKill) # {}
  /\ channel = "closed"

\* The step delivers an 'error' event of the channel.
DeliversError ==
  /\ Len(delivered') = Len(delivered) + 1
  /\ delivered'[Len(delivered')].ev = "error"

\* C12: when the handler of a channel 'error' event ends, suppressing the
\* error or throwing it, the session is closed, Terminal.total has been
\* decremented once and 'exit' has been emitted once.
TeardownPrecedesDecision ==
  [][DeliversError
     => /\ closed'
        /\ total' = 0
        /\ ExitCount(trace') = 1]_vars

\* The kill and destroy calls that were queued.
QueuedTeardown ==
  {i \in Queued : calls[i].call.op \in {"kill", "destroy"}}

\* A kill or destroy call made before readiness has no effect before the
\* first data event, and pty.kill is called on a ready session only.
QueuedTeardownWaits ==
  /\ \A i \in QueuedTeardown : ~isReady => Runs(i) = 0
  /\ Where(trace, IsPtyKill) # {} => isReady

\* C15 as stated: a kill or destroy call made before readiness waits for the
\* first data event, and the session is torn down (closed, 'exit' emitted,
\* Terminal.total decremented) on a ready session only.
TeardownOnlyWhenReady ==
  /\ QueuedTeardownWaits
  /\ (closed \/ ExitCount(trace) > 0 \/ total < 1) => isReady

\* C15: a kill or destroy call made before readiness waits for the first
\* data event, pty.kill is called on a ready session only, and a session
\* that is closed before it is ready was closed by the channel's 'error' or
\* 'close' event; 'exit' and the decrement come with the 'close' event,
\* ready or not.
TeardownAfterReadiness ==
  /\ QueuedTeardownWaits
  /\ (closed /\ ~isReady)
       => (channel = "closed" \/ \E n \in 1..Len(delivered) :
                                    delivered[n].ev = "error")
  /\ (ExitCount(trace) > 0 \/ total < 1) <=> channel = "closed"

\* destroy() was queued before readiness and ran at the first data event.
TeardownAfterReadinessWitness ==
  /\ isReady
  /\ closed
  /\ channel = "open"
  /\ \E i \in QueuedTeardown :
       /\ calls[i].call.op = "destroy"
       /\ \E k \in Where(trace, IsPtyKill) : trace[k].id = i

\* The forwarded events the session has emitted, in order.
Emitted == SelectSeq(trace, LAMBDA x : x.e = "emit" /\ x.ev # "exit")

\* The forwarded events the channel has delivered, in order.
Forwardable == SelectSeq(delivered, LAMBDA d : d.ev \in ForwardedEvents)

\* C16: the session has emitted every connect, data, end, timeout and drain
\* event the channel has delivered, once, with its payload, in the order of
\* delivery.
EventForwarding ==
  /\ Len(Emitted) = Len(Forwardable)
  /\ \A k \in 1..Len(Emitted) :
       /\ Emitted[k].ev = Forwardable[k].ev
       /\ Emitted[k].payload = Forwardable[k].payload

\* The step is a call of kill() without a signal, or of destroy().
IsTeardownCall ==
  /\ Len(calls') = Len(calls) + 1
  /\ LET c == calls'[Len(calls')].call
     IN \/ c.op = "destroy"
        \/ c.op = "kill" /\ c.sig = "undefined"

\* C17: on a ready session that is closed, kill() and destroy() change
\* nothing of the session and do not call pty.kill.
SecondTriggerNoOp ==
  [][(IsTeardownCall /\ isReady /\ closed)
     => /\ trace' = trace
        /\ UNCHANGED <<isReady, deferreds, dataPipe, cols, rows, closed, total,
                       channel>>]_vars

\* The write calls whose function has run.
WritesRun ==
  {i \in 1..Len(calls) : calls[i].call.op = "write" /\ Runs(i) > 0}

\* C20: a ready session has its data channel, no function has thrown for a
\* missing channel, and every write whose function has run has written to
\* the channel.
NoWriteToMissingChannel ==
  /\ isReady => dataPipe # "null"
  /\ thrown # "TypeError"
  /\ \A i \in WritesRun :
       \E k \in 1..Len(trace) :
         /\ trace[k].e = "dataPipe.write"
         /\ trace[k].id = i
         /\ dataPipe # "null"

\* A write queued before readiness and a write made on the ready session
\* have both written to the channel.
NoWriteToMissingChannelWitness ==
  /\ isReady
  /\ \E i \in WritesRun, j \in WritesRun : calls[i].queued /\ ~calls[j].queued

\* ------------------------------------------------------------------------
\* The Agent's server and its connections.
\* ------------------------------------------------------------------------

IsStartProcess(x) == x.e = "pty.startProcess"

\* C13: pty.startProcess is called at most once for an Agent; no further
\* connection gets the session's handlers or becomes its data channel, so
\* 'exit' is emitted at most once and Terminal.total does not go below zero.
SingleProcessStart ==
  built = "built"
    => /\ Cardinality(Where(trace, IsStartProcess)) <= 1
       /\ channel2 \notin {"open", "closed"}
       /\ dataPipe # "socket2"
       /\ ExitCount(trace) <= 1
       /\ total >= 0

\* C14: when the constructor has failed, Terminal.total has not been
\* incremented, the server of the partly built Agent does not listen, and
\* pty.startProcess has not been called for that Agent.
ConstructionFailureClean ==
  built = "failed"
    => /\ total = 0
       /\ server # "listening"
       /\ Where(trace, IsStartProcess) = {}

\* C19: every call of pty.startProcess comes after pty.open has returned
\* and passes the pid pty.open returned.
OpenBeforeStart ==
  \A k \in Where(trace, IsStartProcess) :
    /\ built = "built"
    /\ trace[k].pid = Pid
    /\ \E j \in 1..(k - 1) : trace[j].e = "pty.open"

\* ------------------------------------------------------------------------
\* The identifiers of the data pipes.
\* ------------------------------------------------------------------------

Distinct(seq) ==
  \A i \in 1..Len(seq), j \in 1..Len(seq) : i # j => seq[i] # seq[j]

NonDecreasing(seq) ==
  \A i \in 1..Len(seq), j \in 1..Len(seq) : i < j => seq[i] <= seq[j]

\* Every Agent created has one identifier, made of its number of creation
\* and of its timestamp.
OneIdentifierEach ==
  /\ Len(ids) = pipeIncr
  /\ Len(stamps) = pipeIncr
  /\ \A k \in 1..Len(ids) : ids[k] = PipeId(k, stamps[k])

====
